---- MODULE Spec2Model ----
(***************************************************************************)
(* A model of homework.py: the startup credential check and the polling    *)
(* loop of main(), with the functions it calls (get_api_answer,            *)
(* check_response, parse_status, send_message) as operators over Python    *)
(* values.  The Russian message texts are transliterated to ASCII.         *)
(***************************************************************************)
EXTENDS Integers, Sequences, FiniteSets, TLC

VARIABLES
    env,               \* os.environ as read by os.getenv at import (lines 26-28)
    pc,                \* position of main(): start, poll, handle, sleep, exited, crashed
    work_flag,         \* main's local work_flag
    api_flag,          \* main's local api_flag
    previous_message,  \* main's local previous_message
    timestamp,         \* main's local timestamp
    work_status,       \* main's local work_status (result of get_api_answer)
    response,          \* what requests.get did in the current iteration
    from_date,         \* payload['from_date'] of the HTTP request of the current iteration
    sent,              \* bot.send_message attempts of the current iteration
    http_calls,        \* requests.get calls since the last time.sleep
    uncaught,          \* the exception that ended main(), if any
    ever_polled,       \* some requests.get was issued in this run
    ever_sent,         \* some bot.send_message was attempted in this run
    prev_class         \* how the previous completed iteration is classified

vars == <<env, pc, work_flag, api_flag, previous_message, timestamp, work_status,
          response, from_date, sent, http_calls, uncaught, ever_polled,
          ever_sent, prev_class>>

----------------------------------------------------------------------------
(* Bounds of the model *)

\* longest `homeworks` list a response carries
MaxHomeworks == 2
\* `current_date` values range over 1..MaxDate
MaxDate == 2

----------------------------------------------------------------------------
(* Python values *)

PyNone == [t |-> "none"]
PyBool(b) == [t |-> "bool", v |-> b]
PyInt(n) == [t |-> "int", v |-> n]
PyStr(s) == [t |-> "str", v |-> s]
PyList(s) == [t |-> "list", v |-> s]
PyDict(f) == [t |-> "dict", v |-> f]

EmptyDict == PyDict([k \in {} |-> PyNone])

\* bool(x): None, False, 0, '', [] and {} are falsy
Truthy(x) ==
    CASE x.t = "none" -> FALSE
      [] x.t = "bool" -> x.v
      [] x.t = "int" -> x.v # 0
      [] x.t = "str" -> x.v # ""
      [] x.t = "list" -> x.v # <<>>
      [] x.t = "dict" -> DOMAIN x.v # {}

\* isinstance(x, list)
IsList(x) == x.t = "list"

\* the outcome of a call: a returned value or a raised exception
Ret(v) == [k |-> "return", v |-> v]
Raise(e) == [k |-> "raise", exc |-> e]

NoExc == "none"

\* subclasses of requests.exceptions.RequestException among the exceptions modelled
IsRequestException(e) == e \in {"ConnectionError", "Timeout", "requests.JSONDecodeError"}

----------------------------------------------------------------------------
(* Module constants *)

\* int(time.time()) at startup
StartTime == 1

\* HTTPStatus.OK
HTTP_OK == 200

CredentialNames == {"PRACTICUM", "TELEGRAM_TOKEN", "TELEGRAM"}

\* HOMEWORK_VERDICTS
HOMEWORK_VERDICTS ==
    [approved |-> "Rabota proverena: revyueru vsyo ponravilos. Ura!",
     reviewing |-> "Rabota vzyata na proverku revyuerom.",
     rejected |-> "Rabota proverena: u revyuera est zamechaniya."]

DataProblemText == "Problema s polucheniem statusa DZ."
ApiProblemText == "Problema s polucheniem API."

----------------------------------------------------------------------------
(* The functions of homework.py *)

\* a check_tokens that forgets the chat identifier
check_tokens_skips_chat_id(e) ==
    \A name \in {"PRACTICUM", "TELEGRAM_TOKEN"} : Truthy(e[name])

\* check_tokens(): False at the first falsy credential, True after the loop
check_tokens(e) ==
    \A name \in CredentialNames : Truthy(e[name])

\* a send_message whose except clause is missing: the transport error escapes
send_message_reraises(message, transport_ok) ==
    [result |-> IF transport_ok THEN Ret(PyNone) ELSE Raise("TransportError"),
     attempt |-> [text |-> message, delivered |-> transport_ok]]

\* send_message(bot, message): one bot.send_message call; any Exception of the
\* transport is logged and swallowed
send_message(message, transport_ok) ==
    [result |-> Ret(PyNone),
     attempt |-> [text |-> message, delivered |-> transport_ok]]

\* get_api_answer(timestamp), given what requests.get and response.json() did
get_api_answer(r) ==
    IF r.get.k = "raise"
    THEN IF IsRequestException(r.get.exc) THEN Ret(PyNone) ELSE Raise(r.get.exc)
    ELSE IF r.status_code # HTTP_OK
         THEN Raise("Exception")
         ELSE IF r.json.k = "raise"
              THEN IF IsRequestException(r.json.exc)
                   THEN Ret(PyNone)
                   ELSE Raise(r.json.exc)
              ELSE Ret(r.json.v)

\* a check_response that takes the last element of the list instead of the first
check_response_last_element(resp) ==
    IF resp.t # "dict"
    THEN Raise("TypeError")
    ELSE IF "homeworks" \notin DOMAIN resp.v
         THEN Raise("KeyError")
         ELSE LET homework == resp.v["homeworks"] IN
              IF ~IsList(homework)
              THEN Raise("TypeError")
              ELSE IF ~Truthy(homework)
                   THEN Ret(homework)
                   ELSE Ret(homework.v[Len(homework.v)])

\* check_response(response)
check_response(resp) ==
    IF resp.t # "dict"
    THEN Raise("TypeError")            \* response['homeworks'] on a non-mapping
    ELSE IF "homeworks" \notin DOMAIN resp.v
         THEN Raise("KeyError")
         ELSE LET homework == resp.v["homeworks"] IN
              IF ~IsList(homework)
              THEN Raise("TypeError")
              ELSE IF ~Truthy(homework)
                   THEN Ret(homework)
                   ELSE Ret(homework.v[1])

\* dict.get(key) on HOMEWORK_VERDICTS: an unhashable key raises TypeError
VerdictsGet(status) ==
    IF status.t \in {"list", "dict"}
    THEN Raise("TypeError")
    ELSE IF status.t = "str" /\ status.v \in DOMAIN HOMEWORK_VERDICTS
         THEN Ret(PyStr(HOMEWORK_VERDICTS[status.v]))
         ELSE Ret(PyNone)

\* str(x) as an f-string field formats it, for the values the model formats
PyFormat(x) ==
    CASE x.t = "str" -> x.v
      [] x.t = "none" -> "None"
      [] x.t = "bool" -> IF x.v THEN "True" ELSE "False"
      [] x.t = "list" /\ x.v = <<>> -> "[]"
      [] x.t = "dict" /\ DOMAIN x.v = {} -> "{}"
      [] OTHER -> "?"

StatusMessage(homework_name, verdict) ==
    "Izmenilsya status proverki raboty \"" \o PyFormat(homework_name)
        \o "\". " \o PyFormat(verdict)

\* parse_status(homework)
parse_status(homework) ==
    IF homework.t # "dict"
    THEN Raise("TypeError")            \* homework['homework_name'] on a non-mapping
    ELSE IF "homework_name" \notin DOMAIN homework.v
         THEN Raise("KeyError")
         ELSE LET homework_name == homework.v["homework_name"]
                  status == IF "status" \in DOMAIN homework.v
                            THEN homework.v["status"]
                            ELSE PyNone
                  verdict == VerdictsGet(status)
              IN  IF verdict.k = "raise"
                  THEN Ret(PyNone)     \* except Exception: logged, falls off the end
                  ELSE IF status = PyNone \/ verdict.v = PyNone
                       THEN Raise("ValueError")
                       ELSE Ret(PyStr(StatusMessage(homework_name, verdict.v)))

----------------------------------------------------------------------------
(* The body of main()'s loop, lines 170-190, on a record of main's locals *)

\* one send_message call from main: the attempt is recorded; an exception
\* leaving send_message would leave main too
SendIn(st, text, transport_ok) ==
    LET s == send_message(text, transport_ok) IN
    [st EXCEPT !.sent = Append(@, s.attempt),
               !.exc = IF s.result.k = "raise" THEN s.result.exc ELSE NoExc]

\* lines 173-179 without the comparison with previous_message at line 174
status_branch_always_sends(st, homework, transport_ok) ==
    LET ps == parse_status(homework) IN
    IF ps.k = "raise"
    THEN [st EXCEPT !.exc = ps.exc]
    ELSE LET message == ps.v IN
         IF Truthy(message)
         THEN LET st1 == SendIn(st, message.v, transport_ok) IN
              IF st1.exc # NoExc
              THEN st1
              ELSE [st1 EXCEPT !.previous_message = message, !.work_flag = FALSE]
         ELSE st

\* lines 173-179 with previous_message assigned only when the send was delivered
status_branch_records_on_delivery(st, homework, transport_ok) ==
    LET ps == parse_status(homework) IN
    IF ps.k = "raise"
    THEN [st EXCEPT !.exc = ps.exc]
    ELSE LET message == ps.v IN
         IF Truthy(message) /\ message # st.previous_message
         THEN LET st1 == SendIn(st, message.v, transport_ok) IN
              IF st1.exc # NoExc
              THEN st1
              ELSE IF transport_ok
                   THEN [st1 EXCEPT !.previous_message = message, !.work_flag = FALSE]
                   ELSE [st1 EXCEPT !.work_flag = FALSE]
         ELSE st

\* lines 173-179: the branch of a truthy homework
status_branch(st, homework, transport_ok) ==
    LET ps == parse_status(homework) IN
    IF ps.k = "raise"
    THEN [st EXCEPT !.exc = ps.exc]
    ELSE LET message == ps.v IN
         IF Truthy(message) /\ message # st.previous_message
         THEN LET st1 == SendIn(st, message.v, transport_ok) IN
              IF st1.exc # NoExc
              THEN st1
              ELSE [st1 EXCEPT !.previous_message = message, !.work_flag = FALSE]
         ELSE st

\* lines 183-185 without the test of work_flag
data_branch_unguarded(st, transport_ok) ==
    LET st1 == SendIn(st, DataProblemText, transport_ok) IN
    IF st1.exc # NoExc THEN st1 ELSE [st1 EXCEPT !.work_flag = TRUE]

\* lines 183-185: the data-problem notification behind work_flag
data_branch(st, transport_ok) ==
    IF ~st.work_flag
    THEN LET st1 == SendIn(st, DataProblemText, transport_ok) IN
         IF st1.exc # NoExc THEN st1 ELSE [st1 EXCEPT !.work_flag = TRUE]
    ELSE st

\* lines 187-189: the API-problem notification behind api_flag
api_branch(st, transport_ok) ==
    IF ~st.api_flag
    THEN LET st1 == SendIn(st, ApiProblemText, transport_ok) IN
         IF st1.exc # NoExc THEN st1 ELSE [st1 EXCEPT !.api_flag = TRUE]
    ELSE st

\* line 182 written as `if` instead of `elif`
if_not_list(took_if, homework) == ~IsList(homework)

\* line 182 without the isinstance test: every falsy homework is a data problem
elif_any_falsy(took_if, homework) == ~took_if

\* line 182: `elif not isinstance(homework, list)`, after `if homework` at line 172
elif_not_list(took_if, homework) == ~took_if /\ ~IsList(homework)

\* lines 170-190 for the work_status of this iteration
main_iteration(ws, pm, wf, af, transport_ok) ==
    LET st0 == [exc |-> NoExc, previous_message |-> pm, work_flag |-> wf,
                api_flag |-> af, sent |-> <<>>]
        body ==
            IF Truthy(ws)
            THEN LET cr == check_response(ws) IN
                 IF cr.k = "raise"
                 THEN [st0 EXCEPT !.exc = cr.exc]
                 ELSE LET homework == cr.v
                          took_if == Truthy(homework)
                          st1 == IF took_if
                                 THEN status_branch(st0, homework, transport_ok)
                                 ELSE st0
                      IN  IF st1.exc = NoExc /\ elif_not_list(took_if, homework)
                          THEN data_branch(st1, transport_ok)
                          ELSE st1
            ELSE api_branch(st0, transport_ok)
    IN  IF body.exc # NoExc
        THEN body
        ELSE [body EXCEPT !.api_flag = FALSE]       \* line 190

\* a main() that goes on after a failed check_tokens
main_startup_without_exit(e) == "poll"

\* lines 158-159: sys.exit unless check_tokens()
main_startup(e) == IF ~check_tokens(e) THEN "exited" ELSE "poll"

----------------------------------------------------------------------------
(* What the environment can supply *)

\* os.getenv gives None for an unset variable, else its string
CredentialValues == {PyNone, PyStr(""), PyStr("secret")}

Absent == [t |-> "absent"]

\* a dict of up to two keys; a value of Absent leaves its key out
Dict2(k1, v1, k2, v2) ==
    PyDict([k \in (IF v1 = Absent THEN {} ELSE {k1}) \cup
                  (IF v2 = Absent THEN {} ELSE {k2})
            |-> IF k = k1 THEN v1 ELSE v2])

HomeworkNames == {PyStr("hw1"), PyStr("hw2")}

\* the three verdict codes, an unknown code, null and an unhashable value
StatusValues == {PyStr("approved"), PyStr("reviewing"), PyStr("rejected"),
                 PyStr("unknown"), PyNone, PyList(<<>>)}

HomeworkRecords ==
    {Dict2("homework_name", n, "status", s) :
        n \in HomeworkNames \cup {Absent}, s \in StatusValues \cup {Absent}}

\* first elements of `homeworks`: records and values that are no record
HeadElements ==
    HomeworkRecords \cup {PyNone, PyStr(""), PyStr("x"), PyInt(0), PyList(<<>>)}

\* later elements of `homeworks`
TailElements ==
    {Dict2("homework_name", PyStr("hw2"), "status", PyStr("approved")), PyNone}

Tails(n) == UNION {[1..m -> TailElements] : m \in 0..n}

HomeworksLists ==
    {PyList(<<>>)} \cup
    {PyList(<<h>> \o t) : h \in HeadElements, t \in Tails(MaxHomeworks - 1)}

HomeworksValues == HomeworksLists \cup {PyNone, PyStr("x"), EmptyDict}

DateValues == {PyInt(d) : d \in 1..MaxDate}

\* bodies that parse to a mapping
JsonMappings ==
    {Dict2("homeworks", h, "current_date", d) :
        h \in HomeworksValues \cup {Absent}, d \in DateValues \cup {Absent}}

\* bodies that parse to something else
JsonOthers ==
    {PyNone, PyList(<<>>), PyList(<<PyNone>>), PyStr("error"), PyInt(0), PyBool(TRUE)}

\* response.json(): a value, or the decode error of the installed requests
\* (requests.JSONDecodeError since 2.27, a plain ValueError subclass before)
JsonOutcomes ==
    {Ret(v) : v \in JsonMappings \cup JsonOthers} \cup
    {Raise("requests.JSONDecodeError"), Raise("json.JSONDecodeError")}

\* what one requests.get can do
HttpOutcomes ==
    {[get |-> Raise(e)] : e \in {"ConnectionError", "Timeout"}} \cup
    {[get |-> Ret(PyNone), status_code |-> HTTP_OK, json |-> j] : j \in JsonOutcomes} \cup
    {[get |-> Ret(PyNone), status_code |-> c, json |-> Raise("requests.JSONDecodeError")] :
        c \in {404, 500}}

\* the kind of a poll by the error taxonomy: which contract clause the
\* outcome of requests.get falls under
IterationClass(r) ==
    IF r.get.k = "raise" THEN "unreachable"
    ELSE IF r.status_code # HTTP_OK THEN "bad_status"
    ELSE IF r.json.k = "raise" THEN "undecodable"
    ELSE IF r.json.v.t # "dict" THEN "not_mapping"
    ELSE IF "homeworks" \notin DOMAIN r.json.v.v THEN "no_homeworks"
    ELSE LET hw == r.json.v.v["homeworks"] IN
         IF hw.t # "list" THEN "homeworks_not_list"
         ELSE IF hw.v = <<>> THEN "empty_list"
         ELSE LET h == hw.v[1] IN
              IF ~Truthy(h) /\ h.t # "list" THEN "null_record"
              ELSE IF /\ h.t = "dict"
                      /\ {"homework_name", "status"} \subseteq DOMAIN h.v
                      /\ h.v["status"] \in {PyStr(c) : c \in DOMAIN HOMEWORK_VERDICTS}
                   THEN "status"
                   ELSE "bad_record"

----------------------------------------------------------------------------
(* The program *)

Init ==
    /\ env \in [CredentialNames -> CredentialValues]
    /\ pc = "start"
    /\ work_flag = FALSE
    /\ api_flag = FALSE
    /\ previous_message = PyNone
    /\ timestamp = PyNone
    /\ work_status = PyNone
    /\ response = [get |-> Raise(NoExc)]
    /\ from_date = PyNone
    /\ sent = <<>>
    /\ http_calls = 0
    /\ uncaught = NoExc
    /\ ever_polled = FALSE
    /\ ever_sent = FALSE
    /\ prev_class = "none"

\* lines 158-167: the credential check and the initial values of main's locals
Start ==
    /\ pc = "start"
    /\ pc' = main_startup(env)
    /\ IF pc' = "exited"
       THEN UNCHANGED timestamp
       ELSE timestamp' = PyInt(StartTime)
    /\ work_flag' = FALSE
    /\ api_flag' = FALSE
    /\ previous_message' = PyNone
    /\ UNCHANGED <<env, work_status, response, from_date, sent, http_calls,
                   uncaught, ever_polled, ever_sent, prev_class>>

\* line 169: work_status = get_api_answer(timestamp)
Poll ==
    /\ pc = "poll"
    /\ \E r \in HttpOutcomes :
          LET res == get_api_answer(r) IN
          /\ response' = r
          /\ IF res.k = "raise"
             THEN /\ pc' = "crashed"
                  /\ uncaught' = res.exc
                  /\ UNCHANGED work_status
             ELSE /\ pc' = "handle"
                  /\ work_status' = res.v
                  /\ UNCHANGED uncaught
    /\ from_date' = timestamp
    /\ http_calls' = http_calls + 1
    /\ ever_polled' = TRUE
    /\ UNCHANGED <<env, work_flag, api_flag, previous_message, timestamp, sent,
                   ever_sent, prev_class>>

\* lines 170-190: the rest of the iteration up to the sleep
Handle ==
    /\ pc = "handle"
    /\ \E transport_ok \in BOOLEAN :
          LET it == main_iteration(work_status, previous_message, work_flag,
                                   api_flag, transport_ok) IN
          /\ pc' = IF it.exc = NoExc THEN "sleep" ELSE "crashed"
          /\ uncaught' = it.exc
          /\ previous_message' = it.previous_message
          /\ work_flag' = it.work_flag
          /\ api_flag' = it.api_flag
          /\ sent' = it.sent
          /\ ever_sent' = (ever_sent \/ it.sent # <<>>)
    /\ UNCHANGED <<env, timestamp, work_status, response, from_date, http_calls,
                   ever_polled, prev_class>>

\* line 191 and the jump back to line 168
Sleep ==
    /\ pc = "sleep"
    /\ pc' = "poll"
    /\ sent' = <<>>
    /\ http_calls' = 0
    /\ prev_class' = IterationClass(response)
    /\ UNCHANGED <<env, work_flag, api_flag, previous_message, timestamp,
                   work_status, response, from_date, uncaught, ever_polled, ever_sent>>

Next == Start \/ Poll \/ Handle \/ Sleep

Spec == Init /\ [][Next]_vars

----------------------------------------------------------------------------
(* Vocabulary of the properties *)

\* how many attempts of this iteration carried `text`
SentCount(text) == Cardinality({i \in DOMAIN sent : sent[i].text = text})

\* a send attempt of this iteration that the transport did not deliver
SomeSendFailed == \E i \in DOMAIN sent : ~sent[i].delivered

\* a credential that is set and not the empty string
Present(c) == c.t = "str" /\ c.v # ""

AllCredentialsPresent == \A name \in CredentialNames : Present(env[name])

\* the poll of this iteration succeeded with a mapping that carries current_date
CarriesCurrentDate ==
    /\ IterationClass(response) \notin {"unreachable", "bad_status", "undecodable",
                                        "not_mapping"}
    /\ "current_date" \in DOMAIN response.json.v.v

\* the classes of a poll that are no failure of any kind
SuccessClasses == {"empty_list", "status"}

\* a text that is neither of the two problem notifications
IsStatusText(text) == text \notin {ApiProblemText, DataProblemText}

\* the first record of the polled `homeworks`, for the classes that have one
PolledRecord == response.json.v.v["homeworks"].v[1]

\* the status message of a polled record that has a name and a known status
PolledStatusText ==
    "Izmenilsya status proverki raboty \"" \o PolledRecord.v["homework_name"].v
        \o "\". " \o HOMEWORK_VERDICTS[PolledRecord.v["status"].v]


----------------------------------------------------------------------------
(* Properties *)

\* C1: in a run of consecutive iterations whose poll fails because the endpoint
\* is unreachable, the API-problem notification is sent exactly once, in the
\* first iteration of the run, and in no later iteration of the run.
C1_ApiProblemOncePerRun ==
    (pc = "sleep" /\ IterationClass(response) = "unreachable") =>
        SentCount(ApiProblemText) = (IF prev_class = "unreachable" THEN 0 ELSE 1)

\* C2: after an iteration whose poll succeeded with a response carrying
\* current_date, the cursor the next poll will use equals that current_date;
\* after any other iteration it is the cursor this poll used.
C2_CursorFollowsCurrentDate ==
    pc = "sleep" =>
        timestamp = (IF CarriesCurrentDate
                     THEN response.json.v.v["current_date"]
                     ELSE from_date)

\* C3: once the credential check has passed the loop never terminates: no
\* failure of the poller, the validator or the formatter ends main().
C3_LoopNeverTerminates ==
    pc # "crashed" /\ uncaught = NoExc

\* C4: for every combination of the three credentials being empty, unset or
\* non-empty, check_tokens returns True if and only if all three are non-empty.
C4_CheckTokensIffAllPresent ==
    check_tokens(env) <=> AllCredentialsPresent

C4_Witness ==
    /\ pc = "exited"
    /\ Present(env["PRACTICUM"])
    /\ Present(env["TELEGRAM_TOKEN"])
    /\ env["TELEGRAM"] = PyStr("")

\* C5: if any credential is empty at startup the process ends before the first
\* iteration: no HTTP poll is ever issued and no notification is ever sent.
C5_NoLoopWithoutCredentials ==
    ~AllCredentialsPresent =>
        /\ pc \in {"start", "exited"}
        /\ ~ever_polled
        /\ ~ever_sent

C5_Witness ==
    /\ pc = "exited"
    /\ env["TELEGRAM_TOKEN"] = PyNone
    /\ Present(env["PRACTICUM"])
    /\ ~ever_polled

\* C6: every iteration, whatever its poll outcome and the flags, makes exactly
\* one HTTP call and attempts at most one send, and no second HTTP call is made
\* before the sleep.
C6_OneCallAtMostOneSend ==
    /\ http_calls <= 1
    /\ Len(sent) <= 1
    /\ (pc \in {"handle", "sleep", "crashed"}) => http_calls = 1
    /\ (pc = "poll") => (http_calls = 0 /\ sent = <<>>)

C6_Witness ==
    /\ pc = "sleep"
    /\ prev_class # "none"
    /\ http_calls = 1
    /\ Len(sent) = 1

\* C7: in a run of consecutive iterations that all end in a data-class failure
\* handled by the loop, the data-problem notification is sent in the first
\* iteration of the run and in no later one.  The first iteration of a run is
\* taken here only where the run starts the loop or follows a success.
C7_DataProblemOncePerRun ==
    (pc = "sleep" /\ IterationClass(response) = "null_record") =>
        /\ prev_class = "null_record" => SentCount(DataProblemText) = 0
        /\ prev_class \in SuccessClasses \cup {"none"} => SentCount(DataProblemText) = 1

\* C8: every successful iteration (empty list, new status message, unchanged
\* status message) ends with both suppression flags cleared.
C8_SuccessClearsFlags ==
    (pc = "sleep" /\ IterationClass(response) \in SuccessClasses) =>
        (~api_flag /\ ~work_flag)

\* C9: a non-200 response gives the poller outcome of a network failure, no
\* usable answer, and the loop goes on to treat it as an API-class failure.
C9_BadStatusLikeUnreachable ==
    (pc \in {"handle", "sleep", "crashed"} /\ IterationClass(response) = "bad_status") =>
        /\ pc # "crashed"
        /\ work_status = get_api_answer([get |-> Raise("ConnectionError")]).v

\* C10: a transport failure inside a send is swallowed by send_message: no
\* error reaches the loop, which is at its sleep step and goes on from there.
C10_SendFailureSwallowed ==
    SomeSendFailed =>
        /\ uncaught = NoExc
        /\ pc = "sleep"
        /\ ENABLED Sleep

C10_Witness ==
    /\ pc = "sleep"
    /\ Len(sent) = 1
    /\ ~sent[1].delivered
    /\ sent[1].text \notin {ApiProblemText, DataProblemText}

\* C11: an iteration sends a status notification if and only if its poll and
\* validation succeed with a non-empty list whose first record formats to a
\* message different from the last status message of the loop; the one send
\* carries that message, so an unchanged message is not sent again and a
\* changed one is.
C11_StatusSentIffChanged ==
    [][pc = "handle" =>
        LET status_sent == \E i \in DOMAIN sent' : IsStatusText(sent'[i].text) IN
        /\ status_sent <=>
              /\ IterationClass(response) = "status"
              /\ PyStr(PolledStatusText) # previous_message
        /\ status_sent =>
              /\ Len(sent') = 1
              /\ sent'[1].text = PolledStatusText
              /\ previous_message' = PyStr(PolledStatusText)]_vars

C11_Witness ==
    /\ pc = "sleep"
    /\ prev_class = "status"
    /\ IterationClass(response) = "status"
    /\ previous_message = PyStr(PolledStatusText)
    /\ sent = <<>>

\* C12: for a polled mapping whose `homeworks` is the empty list check_response
\* returns that list without raising, and the iteration sends nothing and
\* leaves previous_message and work_flag as they were.
C12_EmptyListIsSilent ==
    [][(pc = "handle" /\ IterationClass(response) = "empty_list") =>
        /\ check_response(work_status) = Ret(PyList(<<>>))
        /\ pc' = "sleep"
        /\ uncaught' = NoExc
        /\ sent' = <<>>
        /\ previous_message' = previous_message
        /\ work_flag' = work_flag]_vars

C12_Witness ==
    /\ pc = "sleep"
    /\ IterationClass(response) = "empty_list"
    /\ work_flag
    /\ previous_message # PyNone
    /\ sent = <<>>

C14_ParseStatusMessageOrError ==
    (/\ pc \in {"sleep", "crashed"}
     /\ IterationClass(response) \in {"status", "bad_record"}
     /\ PolledRecord.t = "dict") =>
        IF IterationClass(response) = "status"
        THEN parse_status(PolledRecord) = Ret(PyStr(PolledStatusText))
        ELSE /\ parse_status(PolledRecord).k = "raise"
             /\ pc = "crashed"
             /\ uncaught = parse_status(PolledRecord).exc

\* what the poller gives for an unreachable endpoint or a non-200 status
ApiErrorResults ==
    {get_api_answer(r) : r \in {o \in HttpOutcomes :
        IterationClass(o) \in {"unreachable", "bad_status"}}}

\* C15: for a 200 response whose body cannot be parsed the poller fails, with
\* a decode error that differs from what it gives for an unreachable endpoint
\* or a non-200 status.
C15_DecodeErrorDistinct ==
    (pc \in {"handle", "sleep", "crashed"} /\ IterationClass(response) = "undecodable") =>
        /\ get_api_answer(response).k = "raise"
        /\ get_api_answer(response) \notin ApiErrorResults

\* C16: a parsed 200 response that is a mapping without `homeworks`, the empty
\* mapping included, is never treated as an API-class failure: the iteration
\* that polled it attempts no API-problem notification.
C16_NoHomeworksIsNotApiFailure ==
    (pc \in {"sleep", "crashed"} /\ IterationClass(response) = "no_homeworks") =>
        SentCount(ApiProblemText) = 0

\* C17: a status message is recorded as previous_message after its send
\* attempt whether or not the transport delivered it, and an iteration whose
\* polled record formats to previous_message attempts no send and keeps it;
\* so a status message whose send failed is not attempted again while the API
\* keeps answering with the same name and status.
C17_RecordedEvenIfUndelivered ==
    [][pc = "handle" =>
        /\ (\E i \in DOMAIN sent' : IsStatusText(sent'[i].text)) =>
              /\ pc' = "sleep"
              /\ previous_message' = PyStr(sent'[1].text)
        /\ (/\ IterationClass(response) = "status"
            /\ PyStr(PolledStatusText) = previous_message) =>
              /\ sent' = <<>>
              /\ previous_message' = previous_message]_vars

C17_Witness ==
    /\ pc = "sleep"
    /\ IterationClass(response) = "status"
    /\ sent = <<[text |-> PolledStatusText, delivered |-> FALSE]>>
    /\ previous_message = PyStr(PolledStatusText)

\* C18: the data-problem notification is attempted only in an iteration whose
\* poll returned a truthy answer for which check_response returned a falsy
\* value that is no list, with work_flag unset; and work_flag, once set, is
\* cleared only by an iteration that sends a new status message.
C18_DataProblemAndFlag ==
    [][/\ (sent' # sent /\ \E i \in DOMAIN sent' : sent'[i].text = DataProblemText) =>
            /\ pc = "handle"
            /\ Truthy(work_status)
            /\ check_response(work_status).k = "return"
            /\ ~Truthy(check_response(work_status).v)
            /\ ~IsList(check_response(work_status).v)
            /\ ~work_flag
            /\ work_flag'
       /\ (work_flag /\ ~work_flag') =>
            /\ pc = "handle"
            /\ Len(sent') = 1
            /\ IsStatusText(sent'[1].text)
            /\ previous_message' = PyStr(sent'[1].text)
            /\ previous_message' # previous_message]_vars

C18_Witness ==
    /\ pc = "sleep"
    /\ prev_class = "null_record"
    /\ ~work_flag
    /\ Len(sent) = 1
    /\ IsStatusText(sent[1].text)

====
